---- MODULE Spec2Model ----
(***************************************************************************)
(* Model of keras_cv/layers/fusedmbconv.py (FusedMBConvBlock) and          *)
(* keras_cv/models/resnext.py (GroupConv2D, ConvBlock,                     *)
(* ResNeXt_BottleNeck).                                                    *)
(*                                                                         *)
(* A Python object is a record from attribute names to values; reading an  *)
(* attribute that was never assigned raises AttributeError, reading a name *)
(* bound in no scope raises NameError.  Tensors are abstracted to their    *)
(* shape [h, c] (spatial size, channel count; channels last).  Ratios are  *)
(* numerators over a fixed denominator (se_ratio = n / SeDen,              *)
(* survival_probability = n / SpDen).                                      *)
(***************************************************************************)
EXTENDS Integers, Sequences, FiniteSets, TLC

VARIABLES args, block, config, restored, config2, inputs, callOut, uid, resnext

vars == <<args, block, config, restored, config2, inputs, callOut, uid, resnext>>

fusedVars == <<args, block, config, restored, config2, inputs, callOut, uid>>

\* ---- bounds of the model ------------------------------------------------
MaxFilters == 2
MaxUid == 1
MaxHW == 3
SeDen == 4
SpDen == 10
MaxChannels == 8
MaxGroups == 4

FilterVals == 1..MaxFilters
ExpandVals == {1, 2}
KernelVals == {1, 3}
StrideVals == {1, 2}
SeVals == 0..SeDen
MomentumVals == {900}
ActivationVals == {"swish", "relu"}
SurvivalVals == {0, 8, SpDen}
NameVals == {"None", "blk"}
HWVals == 3..MaxHW

\* ---- Python helpers -----------------------------------------------------
NoneVal == "None"

Absent == [exists |-> FALSE]

Max(a, b) == IF a >= b THEN a ELSE b

\* int(n / d) for n, d >= 0: truncation toward zero
PyInt(n, d) == n \div d

\* round(n / d) for n >= 0, d > 0: Python 3 rounds half to even
PyRound(n, d) ==
    LET q == n \div d
        r == n % d
    IN  IF 2 * r < d THEN q
        ELSE IF 2 * r > d THEN q + 1
        ELSE IF q % 2 = 0 THEN q ELSE q + 1

\* tf "same" padding: output size is ceil(h / strides)
SameOut(h, s) == (h + s - 1) \div s

\* Conv2D output size: "same" gives ceil(h / s), "valid" floor((h - k) / s) + 1
ConvOut(h, k, s, padding) ==
    IF padding = "same" THEN SameOut(h, s)
    ELSE IF h < k THEN 0 ELSE (h - k) \div s + 1

\* ---- fusedmbconv.py -----------------------------------------------------
BN_AXIS == 3

\* names bound at module level of fusedmbconv.py
ModuleGlobals ==
    {"tf", "backend", "layers", "BN_AXIS", "CONV_KERNEL_INITIALIZER", "FusedMBConvBlock"}

\* names bound inside FusedMBConvBlock.call when line 66 runs
CallLocals == {"self", "inputs"}

\* builtins the module uses
Builtins == {"max", "int", "super", "dict", "list"}

\* LOAD_NAME: a name resolves iff some scope binds it
NameResolves(n) == n \in (CallLocals \cup ModuleGlobals \cup Builtins)

\* Layer.__init__(**kwargs): name (auto-generated when absent), trainable, dtype
AutoName(u) == IF u = 0 THEN "fused_mb_conv_block" ELSE "fused_mb_conv_block_" \o ToString(u)

LayerName(kw, u) == IF kw.name = NoneVal THEN AutoName(u) ELSE kw.name

\* __init__ with the strides assignment reading the neighbouring argument
FusedMBConvBlock_init_SwappedStrides(a, u) ==
    [exists |-> TRUE,
     name |-> LayerName(a, u),
     trainable |-> IF "trainable" \in DOMAIN a THEN a.trainable ELSE TRUE,
     dtype |-> IF "dtype" \in DOMAIN a THEN a.dtype ELSE "float32",
     input_filters |-> a.input_filters,
     output_filters |-> a.output_filters,
     expand_ratio |-> a.expand_ratio,
     kernel_size |-> a.kernel_size,
     strides |-> a.kernel_size,
     se_ratio |-> a.se_ratio,
     bn_momentum |-> a.bn_momentum,
     activation |-> a.activation,
     survival_probability |-> a.survival_probability]

\* FusedMBConvBlock.__init__: store every argument on self
FusedMBConvBlock_init(a, u) ==
    [exists |-> TRUE,
     name |-> LayerName(a, u),
     trainable |-> IF "trainable" \in DOMAIN a THEN a.trainable ELSE TRUE,
     dtype |-> IF "dtype" \in DOMAIN a THEN a.dtype ELSE "float32",
     input_filters |-> a.input_filters,
     output_filters |-> a.output_filters,
     expand_ratio |-> a.expand_ratio,
     kernel_size |-> a.kernel_size,
     strides |-> a.strides,
     se_ratio |-> a.se_ratio,
     bn_momentum |-> a.bn_momentum,
     activation |-> a.activation,
     survival_probability |-> a.survival_probability]

\* Layer.get_config(): the base configuration
BaseConfig(self) ==
    [name |-> self.name, trainable |-> self.trainable, dtype |-> self.dtype]

\* FusedMBConvBlock.get_config: base items followed by the block's own items
get_config(self) ==
    [exists |-> TRUE,
     name |-> BaseConfig(self).name,
     trainable |-> BaseConfig(self).trainable,
     dtype |-> BaseConfig(self).dtype,
     input_filters |-> self.input_filters,
     output_filters |-> self.output_filters,
     expand_ratio |-> self.expand_ratio,
     kernel_size |-> self.kernel_size,
     strides |-> self.strides,
     se_ratio |-> self.se_ratio,
     bn_momentum |-> self.bn_momentum,
     activation |-> self.activation,
     survival_probability |-> self.survival_probability]

\* Layer.from_config(config) == cls(**config)
from_config(cfg, u) == FusedMBConvBlock_init(cfg, u)

\* Expansion phase (lines 67-85) applied to tensor t; filters is line 66's value
Expansion(self, filters, t) ==
    IF self.expand_ratio # 1
    THEN [layers |-> << [kind |-> "Conv2D", name |-> "expand_conv", filters |-> filters,
                         kernel_size |-> self.kernel_size, strides |-> self.strides,
                         activation |-> NoneVal, rate |-> 0, noise |-> NoneVal],
                        [kind |-> "BatchNormalization", name |-> "expand_bn", filters |-> filters,
                         kernel_size |-> 0, strides |-> 0,
                         activation |-> NoneVal, rate |-> 0, noise |-> NoneVal],
                        [kind |-> "Activation", name |-> "expand_activation", filters |-> filters,
                         kernel_size |-> 0, strides |-> 0,
                         activation |-> self.activation, rate |-> 0, noise |-> NoneVal] >>,
          x |-> [h |-> SameOut(t.h, self.strides), c |-> filters]]
    ELSE [layers |-> << >>, x |-> t]

\* line 89: filters_se = max(1, int(self.input_filters * self.se_ratio))
filters_se(self) == Max(1, PyInt(self.input_filters * self.se_ratio, SeDen))

\* Squeeze and excite (lines 88-115)
SqueezeExcite(self, filters, t) ==
    IF 0 < self.se_ratio /\ self.se_ratio <= SeDen
    THEN [layers |-> << [kind |-> "GlobalAveragePooling2D", name |-> "se_squeeze", filters |-> t.c,
                         kernel_size |-> 0, strides |-> 0,
                         activation |-> NoneVal, rate |-> 0, noise |-> NoneVal],
                        [kind |-> "Reshape", name |-> "se_reshape", filters |-> filters,
                         kernel_size |-> 0, strides |-> 0,
                         activation |-> NoneVal, rate |-> 0, noise |-> NoneVal],
                        [kind |-> "Conv2D", name |-> "se_reduce", filters |-> filters_se(self),
                         kernel_size |-> 1, strides |-> 1,
                         activation |-> self.activation, rate |-> 0, noise |-> NoneVal],
                        [kind |-> "Conv2D", name |-> "se_expand", filters |-> filters,
                         kernel_size |-> 1, strides |-> 1,
                         activation |-> "sigmoid", rate |-> 0, noise |-> NoneVal],
                        [kind |-> "Multiply", name |-> "se_excite", filters |-> t.c,
                         kernel_size |-> 0, strides |-> 0,
                         activation |-> NoneVal, rate |-> 0, noise |-> NoneVal] >>,
          x |-> t]
    ELSE [layers |-> << >>, x |-> t]

\* Output phase (lines 118-133)
Projection(self, t) ==
    LET k == IF self.expand_ratio # 1 THEN 1 ELSE self.kernel_size
        s == IF self.expand_ratio # 1 THEN 1 ELSE self.strides
        conv == << [kind |-> "Conv2D", name |-> "project_conv", filters |-> self.output_filters,
                    kernel_size |-> k, strides |-> s,
                    activation |-> NoneVal, rate |-> 0, noise |-> NoneVal],
                   [kind |-> "BatchNormalization", name |-> "project_bn",
                    filters |-> self.output_filters, kernel_size |-> 0, strides |-> 0,
                    activation |-> NoneVal, rate |-> 0, noise |-> NoneVal] >>
        act == IF self.expand_ratio = 1
               THEN << [kind |-> "Activation", name |-> "project_activation",
                        filters |-> self.output_filters, kernel_size |-> 0, strides |-> 0,
                        activation |-> self.activation, rate |-> 0, noise |-> NoneVal] >>
               ELSE << >>
    IN  [layers |-> conv \o act,
         x |-> [h |-> SameOut(t.h, s), c |-> self.output_filters]]

\* Residual (lines 136-143)
Residual(self, t) ==
    IF self.strides = 1 /\ self.input_filters = self.output_filters
    THEN LET drop == IF self.survival_probability # 0
                     THEN << [kind |-> "Dropout", name |-> "drop", filters |-> t.c,
                              kernel_size |-> 0, strides |-> 0, activation |-> NoneVal,
                              rate |-> self.survival_probability,
                              noise |-> "(None, 1, 1, 1)"] >>
                     ELSE << >>
         IN  [layers |-> drop \o << [kind |-> "Add", name |-> "add", filters |-> t.c,
                                     kernel_size |-> 0, strides |-> 0, activation |-> NoneVal,
                                     rate |-> 0, noise |-> NoneVal] >>,
              x |-> t]
    ELSE [layers |-> << >>, x |-> t]

\* FusedMBConvBlock.call: line 66 reads the bare names input_filters and
\* expand_ratio; the body below it runs only if both resolve
FusedMBConvBlock_call(self, t) ==
    IF ~ NameResolves("input_filters")
    THEN [status |-> "raised", error |-> "NameError: input_filters", layers |-> << >>,
          x |-> [h |-> 0, c |-> 0]]
    ELSE IF ~ NameResolves("expand_ratio")
    THEN [status |-> "raised", error |-> "NameError: expand_ratio", layers |-> << >>,
          x |-> [h |-> 0, c |-> 0]]
    ELSE LET filters == self.input_filters * self.expand_ratio
             e == Expansion(self, filters, t)
             s == SqueezeExcite(self, filters, e.x)
             p == Projection(self, s.x)
             r == Residual(self, p.x)
         IN  [status |-> "returned", error |-> NoneVal,
              layers |-> e.layers \o s.layers \o p.layers \o r.layers,
              x |-> r.x]

\* ---- resnext.py ---------------------------------------------------------
\* tf.keras.layers.Conv2D(filters, kernel_size, strides, padding) as a layer record
Conv2D(filters, kernel_size, strides, padding) ==
    [kind |-> "Conv2D", filters |-> filters, kernel_size |-> kernel_size,
     strides |-> strides, padding |-> padding]

BatchNorm == [kind |-> "BatchNormalization", filters |-> 0, kernel_size |-> 0,
              strides |-> 0, padding |-> NoneVal]

Relu == [kind |-> "relu", filters |-> 0, kernel_size |-> 0, strides |-> 0,
         padding |-> NoneVal]

\* attributes of self when line 27 runs: those of the base Layer and the six
\* assigned on lines 21-26
GroupConv2D_attrs(a) ==
    [name |-> "group_conv2d",
     trainable |-> TRUE,
     kernel_size |-> a.kernel_size,
     strides |-> a.strides,
     padding |-> a.padding,
     group_in_num |-> a.input_channels \div a.groups,
     group_out_num |-> a.output_channels \div a.groups,
     conv_list |-> << >>]

\* GroupConv2D.__init__: line 27 reads self.groups, which no line assigns
GroupConv2D_init(a) ==
    LET self == GroupConv2D_attrs(a)
    IN  IF "groups" \notin DOMAIN self
        THEN [status |-> "raised", error |-> "AttributeError: groups", self |-> self]
        ELSE [status |-> "constructed", error |-> NoneVal,
              self |-> [self EXCEPT !.conv_list =
                            [i \in 1..self.groups |->
                                Conv2D(self.group_out_num, a.kernel_size, a.strides, a.padding)]]]

\* inputs[:, :, :, lo:hi] on a tensor with c channels: the channel indices kept
Slice(c, lo, hi) == {k \in 0..(c - 1) : lo <= k /\ k < hi}

\* GroupConv2D.call: slice, convolve and concatenate in index order
GroupConv2D_call(self, t) ==
    IF "groups" \notin DOMAIN self
    THEN [status |-> "raised", error |-> "AttributeError: groups", slices |-> << >>,
          x |-> [h |-> 0, c |-> 0]]
    ELSE LET feature_map_list ==
                 [i \in 1..self.groups |->
                     [in |-> Slice(t.c, (i - 1) * self.group_in_num, i * self.group_in_num),
                      out |-> self.conv_list[i].filters]]
         IN  [status |-> "returned", error |-> NoneVal, slices |-> feature_map_list,
              x |-> [h |-> ConvOut(t.h, self.kernel_size, self.strides, self.padding),
                     c |-> self.groups * self.group_out_num]]

\* ConvBlock: Conv2D, BatchNormalization, relu
ConvBlock(t, filters, kernel_size, strides, padding) ==
    [layers |-> << Conv2D(filters, kernel_size, strides, padding), BatchNorm, Relu >>,
     x |-> [h |-> ConvOut(t.h, kernel_size, strides, padding), c |-> filters]]

NoTensor == [h |-> 0, c |-> 0]

\* ResNeXt_BottleNeck: lines 48-56 in program order; an exception raised by
\* the GroupConv2D constructor on line 49 propagates to the caller
ResNeXt_BottleNeck(t, filters, strides, groups) ==
    LET b1 == ConvBlock(t, filters, 1, 1, "same")
        g == GroupConv2D_init([input_channels |-> filters, output_channels |-> filters,
                               groups |-> groups, kernel_size |-> 3, strides |-> strides,
                               padding |-> "same"])
    IN  IF g.status = "raised"
        THEN [status |-> "raised", error |-> g.error, main |-> b1.layers,
              shortcut |-> << >>, mainShape |-> b1.x, shortcutShape |-> NoTensor,
              x |-> NoTensor]
        ELSE LET gx == GroupConv2D_call(g.self, b1.x)
                 b3 == ConvBlock(gx.x, 2 * filters, 1, 1, "same")
                 sc == ConvBlock(t, 2 * filters, 1, strides, "same")
                 main == b1.layers
                         \o << [kind |-> "GroupConv2D", filters |-> filters, kernel_size |-> 3,
                                strides |-> strides, padding |-> "same"], BatchNorm, Relu >>
                         \o b3.layers
             IN  IF gx.status = "raised"
                 THEN [status |-> "raised", error |-> gx.error, main |-> b1.layers,
                       shortcut |-> << >>, mainShape |-> b1.x, shortcutShape |-> NoTensor,
                       x |-> NoTensor]
                 ELSE IF b3.x # sc.x
                 THEN [status |-> "raised", error |-> "ValueError: add shapes", main |-> main,
                       shortcut |-> sc.layers, mainShape |-> b3.x, shortcutShape |-> sc.x,
                       x |-> NoTensor]
                 ELSE [status |-> "returned", error |-> NoneVal, main |-> main,
                       shortcut |-> sc.layers, mainShape |-> b3.x, shortcutShape |-> sc.x,
                       x |-> b3.x]

\* ---- state machine ------------------------------------------------------
NoCall == [status |-> "none", error |-> NoneVal, layers |-> << >>, x |-> [h |-> 0, c |-> 0]]

NoInputs == [h |-> 0, c |-> 0]

NoResNeXt == [op |-> "none"]

ArgSet ==
    [name : NameVals, input_filters : FilterVals, output_filters : FilterVals,
     expand_ratio : ExpandVals, kernel_size : KernelVals, strides : StrideVals,
     se_ratio : SeVals, bn_momentum : MomentumVals, activation : ActivationVals,
     survival_probability : SurvivalVals]

Init ==
    /\ args = Absent
    /\ block = Absent
    /\ config = Absent
    /\ restored = Absent
    /\ config2 = Absent
    /\ inputs = NoInputs
    /\ callOut = NoCall
    /\ uid = 0
    /\ resnext = NoResNeXt

\* b = FusedMBConvBlock(**a)
Construct ==
    \E a \in ArgSet :
        /\ ~ block.exists
        /\ a.name = NoneVal => uid < MaxUid
        /\ args' = a @@ [exists |-> TRUE]
        /\ block' = FusedMBConvBlock_init(a, uid)
        /\ uid' = IF a.name = NoneVal THEN uid + 1 ELSE uid
        /\ config' = Absent
        /\ restored' = Absent
        /\ config2' = Absent
        /\ inputs' = NoInputs
        /\ callOut' = NoCall
        /\ UNCHANGED resnext

\* cfg = b.get_config()
GetConfig ==
    /\ block.exists
    /\ config' = get_config(block)
    /\ restored' = Absent
    /\ config2' = Absent
    /\ UNCHANGED <<args, block, inputs, callOut, uid, resnext>>

\* b2 = FusedMBConvBlock.from_config(cfg)
FromConfig ==
    /\ config.exists
    /\ restored' = from_config(config, uid)
    /\ config2' = Absent
    /\ UNCHANGED <<args, block, config, inputs, callOut, uid, resnext>>

\* cfg2 = b2.get_config()
GetConfigRestored ==
    /\ restored.exists
    /\ config2' = get_config(restored)
    /\ UNCHANGED <<args, block, config, restored, inputs, callOut, uid, resnext>>

\* y = b(x) on a 4D input with input_filters channels
Call ==
    /\ block.exists
    /\ \E h \in HWVals :
        /\ inputs' = [h |-> h, c |-> block.input_filters]
        /\ callOut' = FusedMBConvBlock_call(block, [h |-> h, c |-> block.input_filters])
    /\ UNCHANGED <<args, block, config, restored, config2, uid, resnext>>

\* del b, cfg, b2, cfg2, y: the client drops its references; the framework's
\* name counter is kept
Release ==
    /\ block.exists
    /\ args' = Absent
    /\ block' = Absent
    /\ config' = Absent
    /\ restored' = Absent
    /\ config2' = Absent
    /\ inputs' = NoInputs
    /\ callOut' = NoCall
    /\ UNCHANGED <<uid, resnext>>

Next ==
    \/ Construct
    \/ Release
    \/ GetConfig
    \/ FromConfig
    \/ GetConfigRestored
    \/ Call

Spec == Init /\ [][Next]_vars

\* g = GroupConv2D(input_channels, output_channels, groups, kernel_size=3, ...)
NewGroupConv2D ==
    /\ \E ic \in 1..MaxChannels, oc \in 1..MaxChannels, g \in 1..MaxGroups, st \in StrideVals :
        LET a == [input_channels |-> ic, output_channels |-> oc, groups |-> g,
                  kernel_size |-> 3, strides |-> st, padding |-> "valid"]
        IN  resnext' = [op |-> "GroupConv2D", a |-> a, out |-> GroupConv2D_init(a)]
    /\ UNCHANGED fusedVars

\* y = ResNeXt_BottleNeck(x, filters, strides, groups) on a 4D input
BottleNeck ==
    /\ \E h \in HWVals, c \in 1..MaxChannels, f \in 1..MaxChannels, st \in StrideVals,
          g \in 1..MaxGroups :
        resnext' = [op |-> "ResNeXt_BottleNeck",
                    a |-> [h |-> h, c |-> c, filters |-> f, strides |-> st, groups |-> g],
                    out |-> ResNeXt_BottleNeck([h |-> h, c |-> c], f, st, g)]
    /\ UNCHANGED fusedVars

NextResNeXt ==
    \/ NewGroupConv2D
    \/ BottleNeck

SpecResNeXt == Init /\ [][NextResNeXt]_vars

\* ---- properties ---------------------------------------------------------
ConstructorParams ==
    {"input_filters", "output_filters", "expand_ratio", "kernel_size", "strides",
     "se_ratio", "bn_momentum", "activation", "survival_probability"}

\* the layers of a call outcome that carry the given name suffix
Named(out, n) == {i \in 1..Len(out.layers) : out.layers[i].name = n}

ResidualConfig(b) == b.strides = 1 /\ b.input_filters = b.output_filters

\* C1: call adds the block input to the projected output iff strides == 1 and
\* input_filters == output_filters; otherwise there is no add and no dropout and
\* the projected output, with output_filters channels, is returned.
C1_ResidualIff ==
    callOut.status # "none" =>
        /\ (Named(callOut, "add") # {}) <=> ResidualConfig(block)
        /\ ~ ResidualConfig(block) =>
              /\ callOut.status = "returned"
              /\ Named(callOut, "drop") = {}
              /\ callOut.x.c = block.output_filters

\* C2: on the residual path the dropout primitive receives the drop rate
\* 1 - survival_probability with one noise value per sample.
C2_DropRate ==
    (callOut.status # "none" /\ ResidualConfig(block)) =>
        \/ \E i \in Named(callOut, "drop") :
              /\ callOut.layers[i].rate = SpDen - block.survival_probability
              /\ callOut.layers[i].noise = "(None, 1, 1, 1)"
        \/ /\ callOut.status = "returned"
           /\ block.survival_probability = SpDen
           /\ Named(callOut, "drop") = {}

\* C3: call on a 4D input returns a feature map and raises nothing, for
\* expand_ratio == 1 and for expand_ratio != 1.
C3_CallReturns ==
    callOut.status # "none" => callOut.status = "returned"

\* C4: GroupConv2D with channels not divisible by groups fails at construction
\* with a configuration error about divisibility and truncates nothing.
C4_IndivisibleRejected ==
    (/\ resnext.op = "GroupConv2D"
     /\ \/ resnext.a.input_channels % resnext.a.groups # 0
        \/ resnext.a.output_channels % resnext.a.groups # 0) =>
        /\ resnext.out.status = "raised"
        /\ resnext.out.error = "ValueError: channels not divisible by groups"
        /\ "group_in_num" \notin DOMAIN resnext.out.self

\* C5: GroupConv2D with channels divisible by groups is constructed with exactly
\* groups sub-convolutions of output_channels / groups filters each.
C5_GroupsConstructed ==
    (/\ resnext.op = "GroupConv2D"
     /\ resnext.a.input_channels % resnext.a.groups = 0
     /\ resnext.a.output_channels % resnext.a.groups = 0) =>
        /\ resnext.out.status = "constructed"
        /\ Len(resnext.out.self.conv_list) = resnext.a.groups
        /\ \A i \in 1..resnext.a.groups :
              resnext.out.self.conv_list[i].filters
                  = resnext.a.output_channels \div resnext.a.groups

\* C6: ResNeXt_BottleNeck's main path and shortcut have the same shape before
\* the add, and the result has 2 * filters channels at the strided spatial size.
C6_BottleNeckShape ==
    (/\ resnext.op = "ResNeXt_BottleNeck"
     /\ resnext.a.filters % resnext.a.groups = 0) =>
        /\ resnext.out.status = "returned"
        /\ resnext.out.mainShape = resnext.out.shortcutShape
        /\ resnext.out.x = [h |-> SameOut(resnext.a.h, resnext.a.strides),
                            c |-> 2 * resnext.a.filters]

\* C7: get_config() holds every constructor parameter with the value passed, and
\* the configuration of a block rebuilt from it is the same record.
C7_ConfigRoundTrip ==
    /\ config.exists => \A p \in ConstructorParams : config[p] = args[p]
    /\ config2.exists => config2 = config

C7_Witness ==
    /\ config2.exists
    /\ args.name = NoneVal
    /\ args.strides = 2
    /\ args.kernel_size = 3
    /\ args.se_ratio = 1
    /\ args.input_filters # args.output_filters

\* C8: with 0 < se_ratio <= 1 the se_reduce convolution has
\* max(1, round(input_filters * se_ratio)) filters and se_expand restores the
\* channel count of the gated tensor.
C8_ReduceRounded ==
    (callOut.status # "none" /\ 0 < block.se_ratio /\ block.se_ratio <= SeDen) =>
        /\ \E i \in Named(callOut, "se_reduce") :
              callOut.layers[i].filters
                  = Max(1, PyRound(block.input_filters * block.se_ratio, SeDen))
        /\ \E i \in Named(callOut, "se_expand") :
              callOut.layers[i].filters = block.input_filters * block.expand_ratio

\* C9: exactly one of the expansion and projection convolutions carries the
\* block's kernel_size and strides, so the block downsamples once.
C9_OneStridedConv ==
    callOut.status # "none" =>
        /\ callOut.status = "returned"
        /\ callOut.x.h = SameOut(inputs.h, block.strides)
        /\ \E j \in Named(callOut, "project_conv") :
              IF block.expand_ratio # 1
              THEN /\ callOut.layers[j].kernel_size = 1
                   /\ callOut.layers[j].strides = 1
                   /\ \E i \in Named(callOut, "expand_conv") :
                         /\ callOut.layers[i].kernel_size = block.kernel_size
                         /\ callOut.layers[i].strides = block.strides
                         /\ callOut.layers[i].filters
                                = block.input_filters * block.expand_ratio
              ELSE /\ callOut.layers[j].kernel_size = block.kernel_size
                   /\ callOut.layers[j].strides = block.strides
                   /\ Named(callOut, "expand_conv") = {}

\* C10: the shortcut of ResNeXt_BottleNeck is a strided 1x1 convolution to
\* 2 * filters channels followed by batch normalization and no activation.
C10_ShortcutNoRelu ==
    resnext.op = "ResNeXt_BottleNeck" =>
        resnext.out.shortcut
            = << Conv2D(2 * resnext.a.filters, 1, resnext.a.strides, "same"), BatchNorm >>

====
